---- MODULE Spec2Model ----
(***************************************************************************)
(* Model of internal/querycoordv2/checkers/segment_checker.go: the segment *)
(* checker of the query coordinator.  One Check pass reads a snapshot of   *)
(* the meta, the targets, the segment distribution, the channel            *)
(* distribution, the leader views and the node states, and returns load    *)
(* and reduce tasks.  The snapshot is written by other components.         *)
(***************************************************************************)
EXTENDS Integers, Sequences, FiniteSets, TLC

(***************************************************************************)
(* Bounds of the model.                                                    *)
(***************************************************************************)
\* distribution versions range over 1..MaxVersion
MaxVersion == 3
\* number of snapshot updates by other components in one behaviour
MaxWrites == 1

(***************************************************************************)
(* The cluster the model runs on: two collections, collection 1 with two   *)
(* replicas (nodes 1..3 and node 4).  Sealed segments 1 (normal), 2 and 3  *)
(* (L0, on different channels) belong to collection 1, sealed segment 4 to *)
(* collection 2.  Growing segments 5 and 6 belong to collection 1.         *)
(***************************************************************************)
Colls == {1, 2}
Replicas == {1, 2}
Nodes == {1, 2, 3, 4}
Channels == {"c1", "c2", "c3"}
SealedIDs == {1, 2, 3, 4}
GrowingIDs == {5, 6}
Partitions == {1, 2}

\* meta.NilReplica: the replica of a task that belongs to no replica
NilReplica == 0
\* no node: GetShardLeader's ok = false
NoNode == 0

ReplicaColl(r) == 1
ReplicaNodes(r) == IF r = 1 THEN {1, 2, 3} ELSE {4}
ChanColl(ch) == IF ch = "c3" THEN 2 ELSE 1

\* immutable attributes of a segment: GetCollectionID, GetInsertChannel,
\* GetLevel, PartitionID, GetStartPosition().GetTimestamp()
SegColl(s) == IF s = 4 THEN 2 ELSE 1
SegChannel(s) == IF s \in {1, 2, 5} THEN "c1" ELSE IF s \in {3, 6} THEN "c2" ELSE "c3"
SegLevel(s) == IF s \in {2, 3} THEN "L0" ELSE "L1"
SegPartition(s) == SegColl(s)
SegStart(s) == IF s = 5 THEN 2 ELSE 1

initialTargetVersion == 0

(***************************************************************************)
(* The snapshot the checker reads.                                         *)
(***************************************************************************)
VARIABLES
    collections,    \* meta.CollectionManager: the ids of the live collections
    partitions,     \* meta.CollectionManager: the ids of the existing partitions
    currentTarget,  \* targetMgr, CurrentTarget: [sealed, growing, channels, version]
    nextTarget,     \* targetMgr, NextTarget: [sealed, growing, channels]
    dist,           \* dist.SegmentDistManager: placements [id, node, version]
    shardLeader,    \* dist.ChannelDistManager: replica -> channel -> leader node
    leaderViews,    \* dist.LeaderViewManager: views [node, channel, version,
                    \*   targetVersion, segments, growing]
    stopping,       \* nodeMgr: the nodes marked stopping
    unknown,        \* nodeMgr: the nodes whose IsStoppingNode lookup fails
    outbound,       \* meta.ResourceManager: the nodes outside their resource group
    result,         \* what the last Check returned: [status, tasks]
    passes,         \* what the last Check computed in each replica pass
    prev,           \* what the Check before the last returned on this snapshot
    writes,         \* snapshot updates so far
    pc,             \* where a Check that other components interleave with stands
    collectionIDs   \* Check's local collectionIDs (line 86) while it runs

snapshot == <<collections, partitions, currentTarget, nextTarget, dist,
              shardLeader, leaderViews, stopping, unknown, outbound>>
vars == <<collections, partitions, currentTarget, nextTarget, dist,
          shardLeader, leaderViews, stopping, unknown, outbound,
          result, passes, prev, writes, pc, collectionIDs>>

(***************************************************************************)
(* Sequences and sets.                                                     *)
(***************************************************************************)
\* every order in which the elements of S can be iterated
Perms(S) ==
    {f \in [1..Cardinality(S) -> S] : \A i, j \in 1..Cardinality(S) : f[i] = f[j] => i = j}

Range(seq) == {seq[i] : i \in 1..Len(seq)}

Max(S) == CHOOSE x \in S : \A y \in S : y <= x

\* the elements of a set of placements as a slice, in id order
RECURSIVE ById(_)
ById(S) ==
    IF S = {} THEN <<>>
    ELSE LET p == CHOOSE x \in S : \A y \in S : x.id <= y.id
         IN <<p>> \o ById(S \ {p})

(***************************************************************************)
(* The managers' read interfaces.                                          *)
(***************************************************************************)
\* targetMgr.GetSealedSegmentsByCollection(collectionID, scope): the key set
GetSealedSegmentsByCollection(coll, target) == {s \in target.sealed : SegColl(s) = coll}

GetGrowingSegmentsByCollection(coll, target) == {s \in target.growing : SegColl(s) = coll}

\* targetMgr.GetDmChannelsByCollection(collectionID, scope): channel -> seek timestamp
GetDmChannelsByCollection(coll, target) ==
    [ch \in {c \in DOMAIN target.channels : ChanColl(c) = coll} |-> target.channels[ch]]

GetCollectionTargetVersion(coll) == currentTarget.version[coll]

IsCurrentTargetExist(coll) == DOMAIN GetDmChannelsByCollection(coll, currentTarget) # {}
IsNextTargetExist(coll) == DOMAIN GetDmChannelsByCollection(coll, nextTarget) # {}

\* targetMgr.GetSealedSegment(collectionID, id, CurrentTargetFirst) != nil
ExistInTarget(coll, id) ==
    \/ id \in GetSealedSegmentsByCollection(coll, currentTarget)
    \/ id \in GetSealedSegmentsByCollection(coll, nextTarget)

\* dist.ChannelDistManager.GetShardLeader(replica, channel): NoNode when !ok
GetShardLeader(r, ch) == shardLeader[r][ch]

\* dist.ChannelDistManager.GetShardLeadersByReplica(replica): the channels led
GetShardLeadersByReplica(r) == {ch \in Channels : shardLeader[r][ch] # NoNode}

\* dist.LeaderViewManager.GetLeaderShardView(node, channel): the views, none or one
GetLeaderShardView(node, ch) == {v \in leaderViews : v.node = node /\ v.channel = ch}

\* dist.LeaderViewManager.GetLatestLeadersByReplicaShard(replica, shard): the
\* view of the shard with the highest version on the replica's nodes, none or one
GetLatestLeadersByReplicaShard(r, ch) ==
    LET views == {v \in leaderViews : v.channel = ch /\ v.node \in ReplicaNodes(r)}
    IN  {v \in views : \A w \in views : w.version <= v.version}

\* meta.ResourceManager.CheckOutboundNodes(replica)
CheckOutboundNodes(r) == outbound \cap ReplicaNodes(r)

\* utils.FilterReleased(segments, collectionIDs)
FilterReleased(segments, ids) == {s \in segments : SegColl(s.id) \notin ids}

(***************************************************************************)
(* Tasks.  A task is [action, scope, segment, node, replica, reason].      *)
(***************************************************************************)
\* task.NewSegmentActionWithScope + task.NewSegmentTask, for one segment
NewSegmentTask(action, scope, segment, node, replica) ==
    [action |-> action, scope |-> scope, segment |-> segment, node |-> node,
     replica |-> replica, reason |-> ""]

\* task.SetReason(reason, tasks...)
SetReason(reason, tasks) == {[t EXCEPT !.reason = reason] : t \in tasks}

\* balance.Balance.AssignSegment(collectionID, segments, nodes, false): one
\* plan per segment, onto the candidate node that holds the fewest
\* placements (the lowest id among equals); no plan without a candidate
AssignSegment(segments, nodes) ==
    IF nodes = {} THEN {}
    ELSE LET load(n) == Cardinality({p \in dist : p.node = n})
             to == CHOOSE n \in nodes :
                       \A m \in nodes : load(n) < load(m) \/ (load(n) = load(m) /\ n <= m)
         IN  {[segment |-> s, to |-> to] : s \in segments}

\* balance.CreateSegmentTasksFromPlans(ctx, source, timeout, plans)
CreateSegmentTasksFromPlans(plans, r) ==
    {NewSegmentTask("Load", "Historical", p.segment, p.to, r) : p \in plans}

(***************************************************************************)
(* The sealed distribution of a replica.                                   *)
(***************************************************************************)
\* the placements of the replica's collection on one node
GetByFilter(coll, node) == {p \in dist : SegColl(p.id) = coll /\ p.node = node}

\* getSealedSegmentsDist(replica), walking the replica's nodes in order ord
RECURSIVE getSealedSegmentsDist(_, _)
getSealedSegmentsDist(r, ord) ==
    IF ord = <<>> THEN <<>>
    ELSE ById(GetByFilter(ReplicaColl(r), Head(ord))) \o getSealedSegmentsDist(r, Tail(ord))

\* sort.Slice(dist, Version ascending): the sort is not stable, so every
\* arrangement that is ascending by Version is a possible outcome
RECURSIVE SortSlice(_)
SortSlice(S) ==
    IF S = {} THEN {<<>>}
    ELSE UNION {{Append(q, p) : q \in SortSlice(S \ {p})} :
                 p \in {x \in S : \A y \in S : y.version <= x.version}}

\* distMap: for _, s := range dist { distMap[s.GetID()] = s.Node }
RECURSIVE distMap(_)
distMap(sorted) ==
    IF sorted = <<>> THEN <<>>
    ELSE LET s == sorted[Len(sorted)]
             rest == distMap(SubSeq(sorted, 1, Len(sorted) - 1))
         IN  [id \in DOMAIN rest \cup {s.id} |-> IF id = s.id THEN s.node ELSE rest[id]]

(***************************************************************************)
(* getSealedSegmentDiff (lines 197-273).                                   *)
(***************************************************************************)
\* lines 221-226 with the test of line 225 turned around: node == leader.ID
l0WithWrongLocationSame(r, segment, dm) ==
    /\ segment \in DOMAIN dm
    /\ SegLevel(segment) = "L0"
    /\ \E leader \in GetLatestLeadersByReplicaShard(r, SegChannel(segment)) :
           dm[segment] = leader.node

\* lines 221-226 and 240-245: an L0 segment that exists in the distribution
\* on a node other than the latest leader of its channel
l0WithWrongLocation(r, segment, dm) ==
    /\ segment \in DOMAIN dm
    /\ SegLevel(segment) = "L0"
    /\ \E leader \in GetLatestLeadersByReplicaShard(r, SegChannel(segment)) :
           dm[segment] # leader.node

\* lines 219-230 and 233-249: the load candidates before the L0 gate
LoadCandidates(r, dm) ==
    LET nextTargetMap == GetSealedSegmentsByCollection(ReplicaColl(r), nextTarget)
        currentTargetMap == GetSealedSegmentsByCollection(ReplicaColl(r), currentTarget)
        lack(segment) == segment \notin DOMAIN dm \/ l0WithWrongLocation(r, segment, dm)
    IN  {s \in nextTargetMap : lack(s)}
            \cup {s \in currentTargetMap : s \notin nextTargetMap /\ lack(s)}

\* lines 251-260 with || in line 257: the placements missing from a target
ReleaseCandidatesEither(r, sorted) ==
    {s \in Range(sorted) :
        \/ s.id \notin GetSealedSegmentsByCollection(ReplicaColl(r), currentTarget)
        \/ s.id \notin GetSealedSegmentsByCollection(ReplicaColl(r), nextTarget)}

\* lines 251-260: the placements that are in neither target
ReleaseCandidates(r, sorted) ==
    {s \in Range(sorted) :
        /\ s.id \notin GetSealedSegmentsByCollection(ReplicaColl(r), currentTarget)
        /\ s.id \notin GetSealedSegmentsByCollection(ReplicaColl(r), nextTarget)}

\* lines 262-270 without the L0 gate: every candidate is returned
L0GateOff(toLoad) == toLoad

\* lines 262-270 without the test of line 268: toLoad = level0Segments always
L0GateAlways(toLoad) == {s \in toLoad : SegLevel(s) = "L0"}

\* lines 262-270: L0 segments are loaded first
L0Gate(toLoad) ==
    LET level0Segments == {s \in toLoad : SegLevel(s) = "L0"}
    IN  IF Cardinality(level0Segments) > 0 THEN level0Segments ELSE toLoad

\* sorted is the outcome of the sort of line 207; candidates is toLoad as it
\* stands before line 262
getSealedSegmentDiff(r, sorted) ==
    [candidates |-> LoadCandidates(r, distMap(sorted)),
     toLoad |-> L0Gate(LoadCandidates(r, distMap(sorted))),
     toRelease |-> ReleaseCandidates(r, sorted)]

(***************************************************************************)
(* findRepeatedSealedSegments (lines 283-315).                             *)
(***************************************************************************)
\* lines 294-296 with no segment taken for L0
isL0SegmentNever(s) == FALSE

\* lines 294-296
isL0Segment(s) == ExistInTarget(SegColl(s.id), s.id) /\ SegLevel(s.id) = "L0"

\* lines 301-311 with the comparison of line 306 turned around: the newer
\* placement is released
RECURSIVE RepeatedWalkFlipped(_, _, _)
RepeatedWalkFlipped(slice, versions, segments) ==
    IF slice = <<>> THEN segments
    ELSE LET s == Head(slice) IN
         IF isL0Segment(s) THEN RepeatedWalkFlipped(Tail(slice), versions, segments)
         ELSE IF s.id \notin DOMAIN versions
              THEN RepeatedWalkFlipped(Tail(slice), versions @@ (s.id :> s), segments)
         ELSE LET maxVer == versions[s.id] IN
              IF maxVer.version >= s.version
              THEN RepeatedWalkFlipped(Tail(slice), [versions EXCEPT ![s.id] = s],
                                       segments \cup {maxVer})
              ELSE RepeatedWalkFlipped(Tail(slice), versions, segments \cup {s})

\* lines 301-311 with < in line 306: among equal Versions the tracked
\* placement stays and the incoming one is released
RECURSIVE RepeatedWalkStrict(_, _, _)
RepeatedWalkStrict(slice, versions, segments) ==
    IF slice = <<>> THEN segments
    ELSE LET s == Head(slice) IN
         IF isL0Segment(s) THEN RepeatedWalkStrict(Tail(slice), versions, segments)
         ELSE IF s.id \notin DOMAIN versions
              THEN RepeatedWalkStrict(Tail(slice), versions @@ (s.id :> s), segments)
         ELSE LET maxVer == versions[s.id] IN
              IF maxVer.version < s.version
              THEN RepeatedWalkStrict(Tail(slice), [versions EXCEPT ![s.id] = s],
                                      segments \cup {maxVer})
              ELSE RepeatedWalkStrict(Tail(slice), versions, segments \cup {s})

\* lines 301-311: what one placement does to the tracked maxima and the result
RECURSIVE RepeatedWalk(_, _, _)
RepeatedWalk(slice, versions, segments) ==
    IF slice = <<>> THEN segments
    ELSE LET s == Head(slice) IN
         IF isL0Segment(s) THEN RepeatedWalk(Tail(slice), versions, segments)
         ELSE IF s.id \notin DOMAIN versions
              THEN RepeatedWalk(Tail(slice), versions @@ (s.id :> s), segments)
         ELSE LET maxVer == versions[s.id] IN
              IF maxVer.version <= s.version
              THEN RepeatedWalk(Tail(slice), [versions EXCEPT ![s.id] = s],
                                segments \cup {maxVer})
              ELSE RepeatedWalk(Tail(slice), versions, segments \cup {s})

\* ord is the order in which the replica's nodes are walked
findRepeatedSealedSegments(r, ord) ==
    RepeatedWalk(getSealedSegmentsDist(r, ord), <<>>, {})

\* lines 292-311: the placements the walk compares with a tracked maximum or
\* with a later placement (those of a segment that is not skipped as L0 and
\* is met more than once), in the order of the walk
Visited(slice) ==
    LET met(p) == /\ ~isL0Segment(p)
                  /\ \E i \in 1..Len(slice) : slice[i].id = p.id /\ slice[i] # p
    IN  SelectSeq(slice, met)

(***************************************************************************)
(* The staleness filters (lines 317-358).  A filter returns                *)
(* [panic, segments]: it dereferences the leader's view without a nil      *)
(* check, so a release candidate whose channel has a shard leader with no  *)
(* leader view ends the pass with a nil pointer dereference.               *)
(***************************************************************************)
\* the candidates whose channel has a shard leader (lines 320-323, 339-342)
WithShardLeader(r, segments) ==
    {s \in segments : GetShardLeader(r, SegChannel(s.id)) # NoNode}

\* view.Segments / view.TargetVersion of a nil view (lines 326, 350)
NilViewDeref(r, segments) ==
    \E s \in WithShardLeader(r, segments) :
        GetLeaderShardView(GetShardLeader(r, SegChannel(s.id)), SegChannel(s.id)) = {}

\* lines 326-327: the leader serves this segment on this node
ServingOnLeader(view, s) ==
    s.id \in DOMAIN view.segments /\ view.segments[s.id] = s.node

\* lines 326-330 without the test of the node in line 327: a placement is
\* kept back whenever the leader lists its segment, on whatever node
filterExistedOnLeaderListed(r, segments) ==
    IF NilViewDeref(r, segments) THEN [panic |-> TRUE, segments |-> {}]
    ELSE [panic |-> FALSE,
          segments |->
            {s \in WithShardLeader(r, segments) :
                \A view \in GetLeaderShardView(GetShardLeader(r, SegChannel(s.id)),
                                               SegChannel(s.id)) :
                    s.id \notin DOMAIN view.segments}]

filterExistedOnLeader(r, segments) ==
    IF NilViewDeref(r, segments) THEN [panic |-> TRUE, segments |-> {}]
    ELSE [panic |-> FALSE,
          segments |->
            {s \in WithShardLeader(r, segments) :
                \A view \in GetLeaderShardView(GetShardLeader(r, SegChannel(s.id)),
                                               SegChannel(s.id)) :
                    ~ServingOnLeader(view, s)}]

\* line 350 with the comparison of the versions turned around
readableVersionNotUpdateFlipped(view, currentTargetVersion) ==
    view.targetVersion # initialTargetVersion /\ view.targetVersion > currentTargetVersion

\* line 350
readableVersionNotUpdate(view, currentTargetVersion) ==
    view.targetVersion # initialTargetVersion /\ view.targetVersion < currentTargetVersion

\* lines 339-342 with the candidate appended instead of skipped when the
\* channel has no shard leader
filterSegmentInUseKeep(r, segments) ==
    IF NilViewDeref(r, segments) THEN [panic |-> TRUE, segments |-> {}]
    ELSE [panic |-> FALSE,
          segments |->
            {s \in segments :
                \/ s \notin WithShardLeader(r, segments)
                \/ \A view \in GetLeaderShardView(GetShardLeader(r, SegChannel(s.id)),
                                                  SegChannel(s.id)) :
                       ~(/\ SegPartition(s.id) \in partitions
                         /\ readableVersionNotUpdate(view,
                                GetCollectionTargetVersion(SegColl(s.id))))}]

filterSegmentInUse(r, segments) ==
    IF NilViewDeref(r, segments) THEN [panic |-> TRUE, segments |-> {}]
    ELSE [panic |-> FALSE,
          segments |->
            {s \in WithShardLeader(r, segments) :
                \A view \in GetLeaderShardView(GetShardLeader(r, SegChannel(s.id)),
                                               SegChannel(s.id)) :
                    ~(/\ SegPartition(s.id) \in partitions
                      /\ readableVersionNotUpdate(view,
                             GetCollectionTargetVersion(SegColl(s.id))))}]

(***************************************************************************)
(* getGrowingSegmentDiff (lines 139-194): the release side.                *)
(***************************************************************************)
\* lines 177-188 with <= in line 182
GrowingReleasableLe(coll, segment) ==
    LET nextTargetSegmentIDs == GetGrowingSegmentsByCollection(coll, nextTarget)
        currentTargetSegmentIDs == GetGrowingSegmentsByCollection(coll, currentTarget)
        currentTargetChannelMap == GetDmChannelsByCollection(coll, currentTarget)
    IN  /\ segment \notin currentTargetSegmentIDs
        /\ segment \notin nextTargetSegmentIDs
        /\ SegChannel(segment) \in DOMAIN currentTargetChannelMap
        /\ SegStart(segment) <= currentTargetChannelMap[SegChannel(segment)]

\* lines 177-188: a growing segment of the view that may be released
GrowingReleasable(coll, segment) ==
    LET nextTargetSegmentIDs == GetGrowingSegmentsByCollection(coll, nextTarget)
        currentTargetSegmentIDs == GetGrowingSegmentsByCollection(coll, currentTarget)
        currentTargetChannelMap == GetDmChannelsByCollection(coll, currentTarget)
    IN  /\ segment \notin currentTargetSegmentIDs
        /\ segment \notin nextTargetSegmentIDs
        /\ SegChannel(segment) \in DOMAIN currentTargetChannelMap
        /\ SegStart(segment) < currentTargetChannelMap[SegChannel(segment)]

\* lines 153-169: the views of the replica's shard leaders that have adopted
\* the current target version
ReadyViews(r) ==
    {view \in leaderViews :
        /\ view.channel \in GetShardLeadersByReplica(r)
        /\ view.node = GetShardLeader(r, view.channel)
        /\ view.targetVersion = GetCollectionTargetVersion(ReplicaColl(r))}

\* the growing segments to release, each on the node of the view that reports it
getGrowingSegmentDiff(r) ==
    UNION {{[id |-> g, node |-> view.node] :
               g \in {x \in view.growing : GrowingReleasable(ReplicaColl(r), x)}} :
           view \in ReadyViews(r)}

(***************************************************************************)
(* The task factory (lines 360-438).                                       *)
(***************************************************************************)
\* lines 366-373: the replica's nodes that are neither stopping nor outbound
AvailableNodes(r) ==
    {node \in ReplicaNodes(r) :
        /\ node \notin unknown
        /\ node \notin CheckOutboundNodes(r)
        /\ node \notin stopping}

\* line 379: segments[0].GetLevel() == L0 (the L0 gate leaves one level only)
isLevel0(segments) == SegLevel(CHOOSE s \in segments : TRUE) = "L0"

\* lines 385-407 without lines 393-395: an L0 batch is assigned like any other
ShardPlansAnyNode(r, shard, segments, availableNodes, level0) ==
    UNION {AssignSegment({s \in segments : SegChannel(s) = shard}, availableNodes) :
           leader \in GetLatestLeadersByReplicaShard(r, shard)}

\* lines 385-407: the plans of one shard
ShardPlans(r, shard, segments, availableNodes, level0) ==
    UNION {AssignSegment({s \in segments : SegChannel(s) = shard},
                         IF level0 THEN {leader.node} ELSE availableNodes) :
           leader \in GetLatestLeadersByReplicaShard(r, shard)}

createSegmentLoadTasks(segments, r) ==
    IF Cardinality(segments) = 0 THEN {}
    ELSE IF Cardinality(AvailableNodes(r)) = 0 THEN {}
    ELSE CreateSegmentTasksFromPlans(
             UNION {ShardPlans(r, shard, segments, AvailableNodes(r), isLevel0(segments)) :
                    shard \in {SegChannel(s) : s \in segments}},
             r)

createSegmentReduceTasks(segments, replica, scope) ==
    {NewSegmentTask("Reduce", scope, s.id, s.node, replica) : s \in segments}

(***************************************************************************)
(* checkReplica (lines 107-136).  diff is what getSealedSegmentDiff        *)
(* returned and repeated what findRepeatedSealedSegments returned, each    *)
(* under one of the iteration orders the pass can meet, visited the        *)
(* placements that walk compared.  at is where the pass ended: "done", or  *)
(* the filter that panicked.                                               *)
(***************************************************************************)
checkReplica(r, diff, repeated, visited) ==
    LET loads == SetReason("lacks of segment", createSegmentLoadTasks(diff.toLoad, r))
        inUse == filterSegmentInUse(r, diff.toRelease)
        notInTarget == SetReason("segment not exists in target",
                           createSegmentReduceTasks(inUse.segments, r, "Historical"))
        onLeader == filterExistedOnLeader(r, repeated)
        redundant == SetReason("redundancies of segment",
                         createSegmentReduceTasks(onLeader.segments, r, "Historical"))
        streaming == SetReason("streaming segment not exists in target",
                         createSegmentReduceTasks(getGrowingSegmentDiff(r), r, "Streaming"))
    IN  [at |-> IF inUse.panic THEN "filterSegmentInUse"
                ELSE IF onLeader.panic THEN "filterExistedOnLeader" ELSE "done",
         candidates |-> diff.candidates,
         toLoad |-> diff.toLoad,
         toRelease |-> diff.toRelease,
         loads |-> loads,
         repeated |-> IF inUse.panic THEN {} ELSE repeated,
         visited |-> IF inUse.panic THEN <<>> ELSE visited,
         tasks |-> IF inUse.panic \/ onLeader.panic THEN {}
                   ELSE loads \cup notInTarget \cup redundant \cup streaming]

\* a replica pass that Check did not start
NoPass ==
    [at |-> "none", candidates |-> {}, toLoad |-> {}, toRelease |-> {}, loads |-> {}, repeated |-> {},
     visited |-> <<>>, tasks |-> {}]

(***************************************************************************)
(* Check (lines 82-105).                                                   *)
(***************************************************************************)
\* lines 75-80 without targetExist: the meta entry alone makes a collection ready
readyToCheckMetaOnly(coll) == coll \in collections

readyToCheck(coll) ==
    coll \in collections /\ (IsNextTargetExist(coll) \/ IsCurrentTargetExist(coll))

\* the replicas Check passes over, ids being the collection ids it read at
\* line 86
ReadyReplicas(ids) == {r \in Replicas : ReplicaColl(r) \in ids /\ readyToCheck(ReplicaColl(r))}

\* the orders Check can pass over them: collection by collection
ReplicaOrders(ids) ==
    {o \in Perms(ReadyReplicas(ids)) :
        \A i, j, k \in 1..Len(o) :
            i < j /\ j < k /\ ReplicaColl(o[i]) = ReplicaColl(o[k])
                => ReplicaColl(o[j]) = ReplicaColl(o[i])}

\* the passes over the replicas in order, up to the first that panics
RECURSIVE RunPasses(_, _)
RunPasses(order, pick) ==
    IF order = <<>> THEN [r \in Replicas |-> NoPass]
    ELSE LET r == Head(order)
             pass == checkReplica(r, pick[r].diff, pick[r].repeated, pick[r].visited)
         IN  IF pass.at # "done" THEN [x \in Replicas |-> IF x = r THEN pass ELSE NoPass]
             ELSE [RunPasses(Tail(order), pick) EXCEPT ![r] = pass]

Panicked(ps) == \E r \in Replicas : ps[r].at \notin {"none", "done"}

\* lines 97-102: the segments of collections that are no longer live
ReleasedTasks(ids) ==
    SetReason("collection released",
        createSegmentReduceTasks(FilterReleased(dist, ids), NilReplica, "Historical"))

\* what Check returns: a panic leaves the caller without a task list
CheckResult(ps, ids) ==
    IF Panicked(ps) THEN [status |-> "panic", tasks |-> {}]
    ELSE [status |-> "ok",
          tasks |-> UNION {ps[r].tasks : r \in Replicas} \cup ReleasedTasks(ids)]

\* the replica's placements, as getSealedSegmentsDist gathers them
ReplicaDist(r) == Range(getSealedSegmentsDist(r, CHOOSE o \in Perms(ReplicaNodes(r)) : TRUE))

\* what the two walks of one replica pass can return: the diff under every
\* outcome of the sort, the repeated segments under every order of the nodes
Picks(r) ==
    {[diff |-> d, repeated |-> w.repeated, visited |-> w.visited] :
        d \in {getSealedSegmentDiff(r, sorted) : sorted \in SortSlice(ReplicaDist(r))},
        w \in {[repeated |-> findRepeatedSealedSegments(r, ord),
                visited |-> Visited(getSealedSegmentsDist(r, ord))] :
                  ord \in Perms(ReplicaNodes(r))}}

NoResult == [status |-> "none", tasks |-> {}]

\* every outcome of the passes of one Check over the snapshot
Outcomes(ids) ==
    {RunPasses(order, [r \in Replicas |-> IF r = 1 THEN p1 ELSE p2]) :
        order \in ReplicaOrders(ids), p1 \in Picks(1), p2 \in Picks(2)}

\* a Check that no other component interleaves with
Check ==
    /\ pc = "idle"
    /\ \E ps \in Outcomes(collections) :
           /\ passes' = ps
           /\ result' = CheckResult(ps, collections)
    /\ prev' = result
    /\ UNCHANGED <<snapshot, writes, pc, collectionIDs>>

\* line 86 of a Check that other components interleave with: it reads the
\* ids of the live collections
CheckBegin ==
    /\ pc = "idle"
    /\ pc' = "running"
    /\ collectionIDs' = collections
    /\ UNCHANGED <<snapshot, result, passes, prev, writes>>

\* lines 88-104 of that Check: the replica passes, the read of the
\* distribution (line 98) and the cleanup, with the ids read at line 86
CheckEnd ==
    /\ pc = "running"
    /\ \E ps \in Outcomes(collectionIDs) :
           /\ passes' = ps
           /\ result' = CheckResult(ps, collectionIDs)
    /\ prev' = result
    /\ pc' = "idle"
    /\ collectionIDs' = {}
    /\ UNCHANGED <<snapshot, writes>>

(***************************************************************************)
(* The other components: the task executor, the target observer, the       *)
(* distribution handler and the node manager update the snapshot between   *)
(* passes.  A behaviour holds at most MaxWrites updates that do not shrink *)
(* the distribution.                                                       *)
(***************************************************************************)
\* the snapshot has changed: what the last Check returned is out of date
Outdated ==
    /\ result' = NoResult
    /\ prev' = NoResult
    /\ passes' = [r \in Replicas |-> NoPass]
    /\ UNCHANGED <<pc, collectionIDs>>

Written ==
    /\ writes < MaxWrites
    /\ writes' = writes + 1
    /\ Outdated

\* the executor carries out a Reduce task of the last pass: the node drops
\* the segment (the distribution shrinks, so the writes need no bound)
ApplyReduce ==
    /\ \E t \in result.tasks :
           /\ t.action = "Reduce" /\ t.scope = "Historical"
           /\ dist' = {p \in dist : ~(p.id = t.segment /\ p.node = t.node)}
    /\ Outdated
    /\ UNCHANGED <<collections, partitions, currentTarget, nextTarget, shardLeader,
                   leaderViews, stopping, unknown, outbound, writes>>

\* the executor carries out a Load task of the last pass: the node reports the segment
ApplyLoad ==
    /\ \E t \in result.tasks :
           LET v == Max({0} \cup {p.version : p \in dist}) + 1
           IN  /\ t.action = "Load"
               /\ v <= MaxVersion
               /\ dist' = {p \in dist : ~(p.id = t.segment /\ p.node = t.node)}
                              \cup {[id |-> t.segment, node |-> t.node, version |-> v]}
    /\ Written
    /\ UNCHANGED <<collections, partitions, currentTarget, nextTarget, shardLeader,
                   leaderViews, stopping, unknown, outbound>>

\* the target observer promotes the next target of a collection to current
UpdateCurrentTarget ==
    /\ \E coll \in Colls :
           /\ IsNextTargetExist(coll)
           /\ currentTarget.version[coll] < MaxVersion
           /\ currentTarget' =
                  [sealed |-> {s \in currentTarget.sealed : SegColl(s) # coll}
                                  \cup GetSealedSegmentsByCollection(coll, nextTarget),
                   growing |-> {s \in currentTarget.growing : SegColl(s) # coll}
                                  \cup GetGrowingSegmentsByCollection(coll, nextTarget),
                   channels |->
                       [ch \in {c \in DOMAIN currentTarget.channels : ChanColl(c) # coll}
                                  \cup DOMAIN GetDmChannelsByCollection(coll, nextTarget) |->
                           IF ChanColl(ch) = coll THEN nextTarget.channels[ch]
                           ELSE currentTarget.channels[ch]],
                   version |-> [currentTarget.version EXCEPT ![coll] = @ + 1]]
           /\ nextTarget' =
                  [sealed |-> {s \in nextTarget.sealed : SegColl(s) # coll},
                   growing |-> {s \in nextTarget.growing : SegColl(s) # coll},
                   channels |-> [ch \in {c \in DOMAIN nextTarget.channels : ChanColl(c) # coll}
                                    |-> nextTarget.channels[ch]]]
    /\ Written
    /\ UNCHANGED <<collections, partitions, dist, shardLeader, leaderViews, stopping,
                   unknown, outbound>>

\* a collection is released: it leaves the live set with its partitions
ReleaseCollection ==
    /\ \E coll \in collections :
           /\ collections' = collections \ {coll}
           /\ partitions' = partitions \ {coll}
    /\ Written
    /\ UNCHANGED <<currentTarget, nextTarget, dist, shardLeader, leaderViews, stopping,
                   unknown, outbound>>

\* a collection is loaded: it joins the live set with its partition
LoadCollection ==
    /\ \E coll \in Colls \ collections :
           /\ collections' = collections \cup {coll}
           /\ partitions' = partitions \cup {coll}
    /\ Outdated
    /\ UNCHANGED <<currentTarget, nextTarget, dist, shardLeader, leaderViews, stopping,
                   unknown, outbound, writes>>

\* the distribution handler reports a segment of a live collection on a node
ReportSegment ==
    /\ \E s \in SealedIDs, n \in Nodes :
           LET v == Max({0} \cup {p.version : p \in dist}) + 1
           IN  /\ SegColl(s) \in collections
               /\ \A p \in dist : ~(p.id = s /\ p.node = n)
               /\ v <= MaxVersion
               /\ dist' = dist \cup {[id |-> s, node |-> n, version |-> v]}
    /\ Outdated
    /\ UNCHANGED <<collections, partitions, currentTarget, nextTarget, shardLeader,
                   leaderViews, stopping, unknown, outbound, writes>>

Next ==
    \/ Check
    \/ ApplyReduce
    \/ ApplyLoad
    \/ UpdateCurrentTarget
    \/ ReleaseCollection

(***************************************************************************)
(* Snapshots.                                                              *)
(***************************************************************************)
\* targets of collection 1: channel c1 of the current target has seek
\* position seek, the current target has version tv
Current(sealed, growing, channels, tv) ==
    [sealed |-> sealed, growing |-> growing, channels |-> channels,
     version |-> [c \in Colls |-> IF c = 1 THEN tv ELSE initialTargetVersion]]

NextT(sealed, growing, channels) ==
    [sealed |-> sealed, growing |-> growing, channels |-> channels]

\* placements of segment id: node n holds it at version at[n], or not at all (0)
Placed(id, at) ==
    {[id |-> id, node |-> n, version |-> at[n]] : n \in {m \in DOMAIN at : at[m] # 0}}

\* the view of channel ch on a node
View(node, ch, version, targetVersion, segments, growing) ==
    [node |-> node, channel |-> ch, version |-> version, targetVersion |-> targetVersion,
     segments |-> segments, growing |-> growing]

NoLeaders == [r \in Replicas |-> [ch \in Channels |-> NoNode]]

Fresh ==
    /\ result = NoResult
    /\ prev = NoResult
    /\ passes = [r \in Replicas |-> NoPass]
    /\ writes = 0
    /\ pc = "idle"
    /\ collectionIDs = {}

AllNodesUp ==
    /\ stopping = {}
    /\ unknown = {}
    /\ outbound = {}

(***************************************************************************)
(* Spec: sealed segment 1 of collection 1 in the current target, the next  *)
(* target or neither, placed on the nodes of replica 1 at any versions;    *)
(* channel c1 with or without a shard leader, the leader with or without a *)
(* view, the view at the initial, an old or the current target version.    *)
(***************************************************************************)
Init ==
    /\ collections = {1}
    /\ partitions \in {{}, {1}}
    /\ \E tgt \in {<<{}, {}>>, <<{1}, {}>>, <<{}, {1}>>} :
           /\ currentTarget = Current(tgt[1], {}, ("c1" :> 1), 2)
           /\ nextTarget = NextT(tgt[2], {}, ("c1" :> 1))
    /\ \E at \in [{1, 2} -> 0..MaxVersion], third \in {0, 1} :
           dist = Placed(1, at @@ (3 :> third))
    /\ shardLeader \in {NoLeaders, [NoLeaders EXCEPT ![1]["c1"] = 1]}
    /\ leaderViews \in
           {{}} \cup {{View(1, "c1", 1, tv, segs, {})} :
                        tv \in 0..2, segs \in {<<>>, (1 :> 1)}}
    /\ AllNodesUp
    /\ Fresh

Spec == Init /\ [][Next]_vars

(***************************************************************************)
(* SpecResolver: segment 1 (normal) on the three nodes of replica 1 at any *)
(* versions and segment 2 (L0) twice or not at all, each in the current    *)
(* target or not; the shard leader's view serves segment 1 from node 1 or  *)
(* does not list it.                                                       *)
(***************************************************************************)
InitResolver ==
    /\ collections = {1}
    /\ partitions = {1}
    /\ \E sealed \in {{}, {1}, {1, 2}} :
           currentTarget = Current(sealed, {}, ("c1" :> 1), 1)
    /\ nextTarget = NextT({}, {}, ("c1" :> 1))
    /\ \E at \in [{1, 2, 3} -> 0..MaxVersion], l0 \in BOOLEAN :
           dist = Placed(1, at) \cup (IF l0 THEN Placed(2, (1 :> 1) @@ (2 :> 2)) ELSE {})
    /\ shardLeader = [NoLeaders EXCEPT ![1]["c1"] = 1]
    /\ leaderViews \in {{View(1, "c1", 1, 1, segs, {})} : segs \in {<<>>, (1 :> 1)}}
    /\ AllNodesUp
    /\ Fresh

SpecResolver == InitResolver /\ [][Next]_vars

(***************************************************************************)
(* SpecLoad: segments 1 (normal), 2 and 3 (L0, channels c1 and c2) in the  *)
(* targets of collection 1 or not; the L0 segment 2 on node 1, node 2 or   *)
(* both; the latest view of c1 on node 1, on node 2 or missing, the view   *)
(* of c2 on node 3 or missing; nodes up, stopping, unknown or outbound,    *)
(* all of them or node 1 alone.                                            *)
(***************************************************************************)
InitLoad ==
    /\ collections = {1}
    /\ partitions = {1}
    /\ \E sealed \in {{}, {1, 2}} :
           currentTarget = Current(sealed, {}, ("c1" :> 1) @@ ("c2" :> 1), 1)
    /\ \E sealed \in {{}, {1}, {2}, {1, 2}, {2, 3}, {1, 2, 3}} :
           nextTarget = NextT(sealed, {}, ("c1" :> 1) @@ ("c2" :> 1))
    /\ \E at \in [{1, 2} -> 0..2], third \in {0, 1} :
           dist = Placed(2, at) \cup Placed(1, (3 :> third))
    /\ shardLeader \in {NoLeaders, [NoLeaders EXCEPT ![1]["c1"] = 1]}
    /\ \E c1 \in {{}, {View(1, "c1", 1, 1, <<>>, {})},
                  {View(1, "c1", 1, 1, <<>>, {}), View(2, "c1", 2, 1, <<>>, {})}},
          c2 \in {{}, {View(3, "c2", 1, 1, <<>>, {})}} :
           leaderViews = c1 \cup c2 \cup {View(4, "c1", 1, 1, <<>>, {})}
    /\ \E down \in {<<{}, {}, {}>>, <<{1, 2, 3}, {}, {}>>, <<{1}, {2}, {3}>>, <<{1}, {}, {}>>} :
           /\ stopping = down[1]
           /\ unknown = down[2]
           /\ outbound = down[3]
    /\ Fresh

SpecLoad == InitLoad /\ [][Next]_vars

(***************************************************************************)
(* SpecGrowing: growing segments 5 (channel c1, start 2) and 6 (channel    *)
(* c2, start 1) reported by the leaders' views, in the targets or not;     *)
(* channel c1 with seek position 1, 2, 3 or without a target entry; the    *)
(* view of c1 at the initial, an old or the current target version.        *)
(***************************************************************************)
InitGrowing ==
    /\ collections = {1}
    /\ partitions = {1}
    /\ \E growing \in SUBSET {5}, tv \in 1..2,
          channels \in {("c2" :> 2)} \cup {("c1" :> k) @@ ("c2" :> 2) : k \in 1..3} :
           currentTarget = Current({1}, growing, channels, tv)
    /\ \E growing \in SUBSET {5} :
           nextTarget = NextT({1}, growing, ("c1" :> 1) @@ ("c2" :> 2))
    /\ dist \in {{}, Placed(1, (1 :> 1) @@ (2 :> 2))}
    /\ shardLeader \in {[NoLeaders EXCEPT ![1]["c2"] = 2],
                        [NoLeaders EXCEPT ![1]["c1"] = 1, ![1]["c2"] = 2]}
    /\ \E c1 \in {{}} \cup {{View(1, "c1", 1, tv, <<>>, growing)} :
                              tv \in 0..2, growing \in SUBSET {5}},
          c2 \in {{View(2, "c2", 1, tv, <<>>, {6})} : tv \in 1..2} :
           leaderViews = c1 \cup c2
    /\ AllNodesUp
    /\ Fresh

SpecGrowing == InitGrowing /\ [][Next]_vars

(***************************************************************************)
(* SpecCleanup: collections 1 and 2 live or released; segment 1 of         *)
(* collection 1 and segment 4 of collection 2 on the nodes; collection 1   *)
(* with or without targets.                                                *)
(***************************************************************************)
InitCleanup ==
    /\ collections \in SUBSET Colls
    /\ partitions = collections
    /\ \E tgt \in {<<{}, <<>>>>, <<{}, ("c1" :> 1)>>, <<{1}, ("c1" :> 1)>>} :
           /\ currentTarget = Current(tgt[1], {}, tgt[2], IF tgt[2] = <<>> THEN 0 ELSE 1)
           /\ nextTarget = NextT(tgt[1], {}, tgt[2])
    /\ \E at \in [{1, 2} -> 0..2], other \in [{1, 4} -> 0..1] :
           dist = Placed(1, at) \cup Placed(4, other)
    /\ shardLeader \in {NoLeaders, [NoLeaders EXCEPT ![1]["c1"] = 1]}
    /\ leaderViews \in
           {{}} \cup {{View(1, "c1", 1, 1, segs, {})} : segs \in {<<>>, (1 :> 1)}}
    /\ AllNodesUp
    /\ Fresh

SpecCleanup == InitCleanup /\ [][Next]_vars

(***************************************************************************)
(* SpecConverge: segment 1 on the three nodes of replica 1 at any          *)
(* versions, in the current target, the next target or neither; channel c1 *)
(* with or without a shard leader, the leader with or without a view, the  *)
(* view serving segment 1 from node 1, from node 2 or not listing it.  The *)
(* checker runs again and again and the executor carries out the Reduce    *)
(* tasks it is given; nothing else writes.  Fairness: the executor applies *)
(* a Reduce task when the passes keep returning one, and the checker's     *)
(* ticker runs a pass after every write.  A pass is enabled and changes    *)
(* the state whenever no result stands (result.status = "none"), so weak   *)
(* fairness of these passes is []<>(result.status # "none").               *)
(***************************************************************************)
InitConverge ==
    /\ collections = {1}
    /\ partitions = {1}
    /\ \E tgt \in {<<{}, {}>>, <<{1}, {}>>, <<{}, {1}>>} :
           /\ currentTarget = Current(tgt[1], {}, ("c1" :> 1), 1)
           /\ nextTarget = NextT(tgt[2], {}, ("c1" :> 1))
    /\ \E at \in [{1, 2, 3} -> 1..MaxVersion] : dist = Placed(1, at)
    /\ shardLeader \in {NoLeaders, [NoLeaders EXCEPT ![1]["c1"] = 1]}
    /\ leaderViews \in
           {{}} \cup {{View(1, "c1", 1, 1, segs, {})} : segs \in {<<>>, (1 :> 1), (1 :> 2)}}
    /\ AllNodesUp
    /\ Fresh

NextConverge ==
    \/ Check
    \/ ApplyReduce

SpecConverge ==
    /\ InitConverge /\ [][NextConverge]_vars
    /\ WF_vars(ApplyReduce)
    /\ []<>(result.status # "none")

(***************************************************************************)
(* SpecConcurrent: a Check in two steps, the read of the live collections  *)
(* (line 86) and the rest, while collections are loaded and segments are   *)
(* reported.  Collection 1 live with segment 1 in its target, collection 2 *)
(* live or not, and if live its segment 4 on node 4 already or not.        *)
(***************************************************************************)
InitConcurrent ==
    /\ collections \in {{1}, {1, 2}}
    /\ partitions = collections
    /\ currentTarget = Current({1}, {}, ("c1" :> 1), 1)
    /\ nextTarget = NextT({1}, {}, ("c1" :> 1))
    /\ \E at \in [{1} -> 0..1], other \in [{4} -> 0..1] :
           /\ other[4] = 1 => 2 \in collections
           /\ dist = Placed(1, at) \cup Placed(4, other)
    /\ shardLeader = [NoLeaders EXCEPT ![1]["c1"] = 1]
    /\ leaderViews = {View(1, "c1", 1, 1, <<>>, {})}
    /\ AllNodesUp
    /\ Fresh

NextConcurrent ==
    \/ CheckBegin
    \/ CheckEnd
    \/ LoadCollection
    \/ ReportSegment

SpecConcurrent == InitConcurrent /\ [][NextConcurrent]_vars

(***************************************************************************)
(* What the claims speak of, read off the snapshot and the returned tasks. *)
(***************************************************************************)
Reduces(scope) == {t \in result.tasks : t.action = "Reduce" /\ t.scope = scope}

ReplicaReduces(r) == {t \in Reduces("Historical") : t.replica = r}

Loads(r) == {t \in result.tasks : t.action = "Load" /\ t.replica = r}

\* the view of the shard leader of the segment's channel in the replica
LeaderViewOf(r, segment) ==
    {v \in leaderViews :
        v.channel = SegChannel(segment) /\ v.node = shardLeader[r][SegChannel(segment)]}

\* the leader reports the segment as served by the node
ServedByLeader(r, segment, node) ==
    \E v \in LeaderViewOf(r, segment) :
        segment \in DOMAIN v.segments /\ v.segments[segment] = node

\* the partition exists and the leader is behind the current target version
LeaderBehind(r, segment) ==
    /\ SegPartition(segment) \in partitions
    /\ \E v \in LeaderViewOf(r, segment) :
           /\ v.targetVersion # initialTargetVersion
           /\ v.targetVersion < currentTarget.version[SegColl(segment)]

\* the placements of a segment on the nodes of a replica
PlacementsIn(r, segment) == {p \in dist : p.id = segment /\ p.node \in ReplicaNodes(r)}

InSealedTargets(segment) == segment \in currentTarget.sealed \cup nextTarget.sealed

Superseded(t, strict) ==
    \E p, q \in PlacementsIn(t.replica, t.segment) :
        /\ p.node = t.node
        /\ q.node # t.node
        /\ IF strict THEN q.version > p.version ELSE q.version >= p.version

\* a growing segment in neither target whose start precedes the seek position
BehindWatermark(segment) ==
    /\ segment \notin currentTarget.growing \cup nextTarget.growing
    /\ SegChannel(segment) \in DOMAIN currentTarget.channels
    /\ SegStart(segment) < currentTarget.channels[SegChannel(segment)]

Justified(t, strict) ==
    IF t.scope = "Historical"
    THEN ~InSealedTargets(t.segment) \/ Superseded(t, strict)
    ELSE BehindWatermark(t.segment)

\* C4 as stated: every Reduce task for a segment of a live collection is for
\* a segment absent from both targets, or for a placement superseded by a
\* strictly newer one in the replica, or for a growing segment behind the
\* seek position of its channel.
C4_StrictlyNewer ==
    \A t \in result.tasks :
        t.action = "Reduce" /\ SegColl(t.segment) \in collections => Justified(t, TRUE)

\* C4 amended: the superseding placement has a Version at least as new
\* (equal Versions supersede each other).
C4_AtLeastAsNew ==
    \A t \in result.tasks :
        t.action = "Reduce" /\ SegColl(t.segment) \in collections => Justified(t, FALSE)

\* a placement of a segment of the target is released for another placement
\* of the same Version
C4_Witness ==
    \E t \in result.tasks :
        /\ t.action = "Reduce" /\ SegColl(t.segment) \in collections
        /\ InSealedTargets(t.segment)
        /\ Superseded(t, FALSE) /\ ~Superseded(t, TRUE)

(***************************************************************************)
(* C10                                                                     *)
(***************************************************************************)
\* a task as the claim identifies it
TaskKeys(tasks) ==
    {[action |-> t.action, segment |-> t.segment, node |-> t.node, replica |-> t.replica] :
        t \in tasks}

\* C10: two Check passes over the same unchanged snapshot return the same
\* tasks (action, segment, node, replica), whatever the iteration orders.
C10_Idempotent ==
    prev.status # "none" =>
        /\ result.status = prev.status
        /\ TaskKeys(result.tasks) = TaskKeys(prev.tasks)

(***************************************************************************)
(* C5                                                                      *)
(***************************************************************************)
DistinctVersions(ps) == \A p, q \in ps : p.version = q.version => p = q

Newest(ps) == {p \in ps : \A q \in ps : q.version <= p.version}

\* the replica passes that ran findRepeatedSealedSegments
Resolved(r) == passes[r].at \in {"filterExistedOnLeader", "done"}

\* C5: for a non-L0 segment whose placements in one replica carry pairwise
\* distinct Versions, findRepeatedSealedSegments returns exactly every
\* placement except the one with the highest Version, under every order in
\* which the placements are walked.
C5_VersionResolution ==
    \A r \in Replicas : Resolved(r) =>
        \A s \in SealedIDs :
            /\ SegLevel(s) # "L0"
            /\ SegColl(s) = ReplicaColl(r)
            /\ DistinctVersions(PlacementsIn(r, s))
            => {p \in passes[r].repeated : p.id = s}
                   = PlacementsIn(r, s) \ Newest(PlacementsIn(r, s))

\* three placements of a non-L0 segment with three Versions, two returned
C5_Witness ==
    \E r \in Replicas : \E s \in SealedIDs :
        /\ Resolved(r)
        /\ SegLevel(s) # "L0"
        /\ DistinctVersions(PlacementsIn(r, s))
        /\ Cardinality(PlacementsIn(r, s)) = 3
        /\ Cardinality({p \in passes[r].repeated : p.id = s}) = 2

(***************************************************************************)
(* C1, C3, C6, C7                                                          *)
(***************************************************************************)
\* the sealed segments of the replica's collection in a target
Of(r, sealed) == {s \in sealed : SegColl(s) = ReplicaColl(r)}

\* the nodes of a replica that are up
Up(r) == {n \in ReplicaNodes(r) : n \notin stopping /\ n \notin outbound}

Ran(r) == passes[r].at # "none"

Loadable(r, s) ==
    /\ Up(r) \ unknown # {}
    /\ GetLatestLeadersByReplicaShard(r, SegChannel(s)) # {}
    /\ SegLevel(s) = "L0" \/ \A c \in passes[r].candidates : SegLevel(c) # "L0"

C3_Disjoint ==
    \A r \in Replicas :
        /\ {t.segment : t \in Loads(r)} \cap {t.segment : t \in ReplicaReduces(r)} = {}
        /\ result.status = "ok" =>
               passes[r].toLoad \cap {t.segment : t \in ReplicaReduces(r)} = {}

\* one pass emits a Load task and a Historical Reduce task for one replica
C3_Witness ==
    \E r \in Replicas : Loads(r) # {} /\ ReplicaReduces(r) # {}

L0Of(segments) == {s \in segments : SegLevel(s) = "L0"}

\* C6: if a load candidate of the replica is L0, the returned load set is
\* exactly the L0 subset of the candidates and no Load task for a non-L0
\* segment is emitted for the replica; otherwise the load set is the full
\* candidate set.
C6_L0Gating ==
    \A r \in Replicas : Ran(r) =>
        /\ {s \in Of(r, currentTarget.sealed \cup nextTarget.sealed) : PlacementsIn(r, s) = {}}
               \subseteq passes[r].candidates
        /\ L0Of(passes[r].candidates) # {} =>
               /\ passes[r].toLoad = L0Of(passes[r].candidates)
               /\ \A t \in passes[r].loads : SegLevel(t.segment) = "L0"
        /\ L0Of(passes[r].candidates) = {} => passes[r].toLoad = passes[r].candidates

\* an L0 and a non-L0 candidate in one pass, and a Load task emitted
C6_Witness ==
    \E r \in Replicas :
        /\ Ran(r)
        /\ L0Of(passes[r].candidates) # {}
        /\ passes[r].candidates \ L0Of(passes[r].candidates) # {}
        /\ Loads(r) # {}

\* the L0 segments of the targets of the replica's collection
L0InTargets(r) == L0Of(Of(r, currentTarget.sealed \cup nextTarget.sealed))

\* no leader resolvable: an L0 segment in the distribution is no candidate
C7_NoLeader(r) ==
    \A s \in L0InTargets(r) :
        PlacementsIn(r, s) # {} /\ GetLatestLeadersByReplicaShard(r, SegChannel(s)) = {}
            => s \notin passes[r].candidates

\* C7 as stated: an L0 segment of the targets reported on a node A while the
\* latest leader of its channel is a node B # A is a load candidate; with no
\* leader resolvable an L0 segment in the distribution is never one.
C7_AnyPlacement ==
    \A r \in Replicas : Ran(r) =>
        /\ \A s \in L0InTargets(r) :
               \A p \in PlacementsIn(r, s) :
                   \A leader \in GetLatestLeadersByReplicaShard(r, SegChannel(s)) :
                       p.node # leader.node => s \in passes[r].candidates
        /\ C7_NoLeader(r)

\* C7 amended: the L0 segment is a load candidate when every placement of it
\* with the highest Version in the replica is on a node other than B.
C7_NewestPlacement ==
    \A r \in Replicas : Ran(r) =>
        /\ \A s \in L0InTargets(r) :
               \A leader \in GetLatestLeadersByReplicaShard(r, SegChannel(s)) :
                   /\ PlacementsIn(r, s) # {}
                   /\ \A p \in Newest(PlacementsIn(r, s)) : p.node # leader.node
                   => s \in passes[r].candidates
        /\ C7_NoLeader(r)

\* an L0 segment placed off the leader's node is a candidate and gets a Load
\* task onto the leader's node
C7_Witness ==
    \E r \in Replicas : \E s \in L0InTargets(r) :
        \E leader \in GetLatestLeadersByReplicaShard(r, SegChannel(s)) :
            /\ PlacementsIn(r, s) # {}
            /\ \A p \in PlacementsIn(r, s) : p.node # leader.node
            /\ s \in passes[r].candidates
            /\ \E t \in Loads(r) : t.segment = s /\ t.node = leader.node

Cleanups == {t \in result.tasks : t.reason = "collection released"}

\* C9: for every placement whose collection is not live Check emits a
\* Historical Reduce task targeting that node, whatever the leader views and
\* the target versions, and no such task for a segment of a live collection.
C9_Cleanup ==
    result.status # "none" =>
        /\ \A p \in dist : SegColl(p.id) \notin collections =>
               \E t \in Cleanups :
                   /\ t.action = "Reduce" /\ t.scope = "Historical"
                   /\ t.segment = p.id /\ t.node = p.node
        /\ \A t \in Cleanups : SegColl(t.segment) \notin collections

\* what holds of the cleanup whenever Check returns
C9_WhenReturned == result.status = "ok" => C9_Cleanup

(***************************************************************************)
(* C11                                                                     *)
(***************************************************************************)
\* C11: Check never fails: on every snapshot, also one with a shard leader
\* recorded for a channel and no leader view of that leader, Check returns a
\* task list.
C11_NeverFails == result.status # "panic"

(***************************************************************************)
(* C12, C13                                                                *)
(***************************************************************************)
\* C12: every Load task targets a node of the replica that is not stopping,
\* not outbound and whose IsStoppingNode lookup succeeds; when the replica
\* has no such node, no Load task is emitted for it.
C12_LoadAvailability ==
    \A r \in Replicas :
        /\ \A t \in Loads(r) : t.node \in Up(r) \ unknown
        /\ Up(r) \ unknown = {} => Loads(r) = {}

\* C13: no Load task is emitted for a segment whose channel has no leader
\* view in the replica, and every Load task for an L0 segment targets the
\* node of the latest leader of the segment's own channel, also when the
\* batch spans channels with different leaders.
C13_LeaderBound ==
    \A r \in Replicas : \A t \in Loads(r) :
        /\ GetLatestLeadersByReplicaShard(r, SegChannel(t.segment)) # {}
        /\ SegLevel(t.segment) = "L0" =>
               \A leader \in GetLatestLeadersByReplicaShard(r, SegChannel(t.segment)) :
                   t.node = leader.node

\* one pass loads two L0 segments of two channels onto two leaders' nodes,
\* while a segment of a channel without a leader view gets no Load task
C13_Witness ==
    \E r \in Replicas : \E t1, t2 \in Loads(r) :
        /\ SegLevel(t1.segment) = "L0" /\ SegLevel(t2.segment) = "L0"
        /\ SegChannel(t1.segment) # SegChannel(t2.segment)
        /\ t1.node # t2.node

(***************************************************************************)
(* C14                                                                     *)
(***************************************************************************)
\* the collection has a current or a next target
HasTarget(coll) ==
    \E ch \in DOMAIN currentTarget.channels \cup DOMAIN nextTarget.channels : ChanColl(ch) = coll

\* C14: a live collection with neither a current nor a next target gets no
\* task from a Check pass, neither Load nor Reduce, and no replica pass,
\* whatever the distribution holds of it.
C14_ReadinessGate ==
    \A coll \in collections :
        ~HasTarget(coll) =>
            /\ \A t \in result.tasks : SegColl(t.segment) # coll
            /\ \A r \in Replicas : ReplicaColl(r) = coll => ~Ran(r)

\* Check returned on a live collection without targets whose segment lies on
\* two nodes of a replica, the shard leader's view at hand
C14_Witness ==
    /\ result.status = "ok"
    /\ \E coll \in collections : \E r \in Replicas : \E s \in SealedIDs :
           /\ ~HasTarget(coll)
           /\ ReplicaColl(r) = coll /\ SegColl(s) = coll
           /\ Cardinality(PlacementsIn(r, s)) = 2
           /\ LeaderViewOf(r, s) # {}

(***************************************************************************)
(* C15                                                                     *)
(***************************************************************************)
\* the placement visited at i loses against the one visited at j: the other
\* has the newer Version, or the same Version and wins the tie
Loses(visited, i, j, firstWins) ==
    /\ visited[i].id = visited[j].id
    /\ \/ visited[j].version > visited[i].version
       \/ /\ visited[j].version = visited[i].version
          /\ IF firstWins THEN j < i ELSE j > i

\* the duplicate resolver releases exactly the placements that lose
TieBreak(firstWins) ==
    \A r \in Replicas : Resolved(r) =>
        \A i \in DOMAIN passes[r].visited :
            passes[r].visited[i] \in passes[r].repeated
                <=> \E j \in DOMAIN passes[r].visited : Loses(passes[r].visited, i, j, firstWins)

\* C15 as stated: among placements of a non-L0 segment with the same Version
\* the first visited is retained and a later one released; an incoming
\* placement whose Version is not newer than the tracked maximum is released.
C15_FirstWins == TieBreak(TRUE)

\* C15 amended: among placements with the same Version the last visited is
\* retained and the earlier ones are released; an incoming placement is the
\* one released only when its Version is older than the tracked maximum.
C15_LastWins == TieBreak(FALSE)

\* two placements of one Version: the first visited is released, the second
\* retained
C15_Witness ==
    \E r \in Replicas :
        /\ Resolved(r)
        /\ \E i, j \in DOMAIN passes[r].visited :
               /\ i < j
               /\ passes[r].visited[i].id = passes[r].visited[j].id
               /\ passes[r].visited[i].version = passes[r].visited[j].version
               /\ passes[r].visited[i] \in passes[r].repeated
               /\ passes[r].visited[j] \notin passes[r].repeated

(***************************************************************************)
(* C16                                                                     *)
(***************************************************************************)
\* C16: a replica pass emits no Historical Reduce task, from the target diff
\* or from the duplicate diff, for a segment whose channel has no shard
\* leader in the replica.
C16_NoLeaderNoRelease ==
    \A r \in Replicas : \A t \in ReplicaReduces(r) :
        shardLeader[r][SegChannel(t.segment)] # NoNode

\* a pass ran to its end with release candidates from the target diff and
\* from the duplicate diff, all on channels without a shard leader, and
\* emitted no Reduce task
C16_Witness ==
    \E r \in Replicas :
        /\ result.status = "ok"
        /\ passes[r].at = "done"
        /\ passes[r].toRelease # {} /\ passes[r].repeated # {}
        /\ \A p \in passes[r].toRelease \cup passes[r].repeated :
               shardLeader[r][SegChannel(p.id)] = NoNode
        /\ ReplicaReduces(r) = {}

(***************************************************************************)
(* C18                                                                     *)
(***************************************************************************)
\* a Reduce task of the last pass for the placement
Reduced(p) ==
    \E t \in result.tasks : t.action = "Reduce" /\ t.segment = p.id /\ t.node = p.node

\* C18: for a sealed segment of the current or the next target of a live
\* collection with a placement in a replica, one Check pass leaves at least
\* one placement of the highest Version in the replica without a Reduce
\* task, also when placements share a Version.
C18_Availability ==
    \A r \in Replicas : \A s \in SealedIDs :
        /\ SegColl(s) \in collections
        /\ InSealedTargets(s)
        /\ PlacementsIn(r, s) # {}
        => \E p \in Newest(PlacementsIn(r, s)) : ~Reduced(p)

\* a segment of the target with two placements of the highest Version, one
\* of them with a Reduce task
C18_Witness ==
    \E r \in Replicas : \E s \in SealedIDs :
        /\ SegColl(s) \in collections
        /\ InSealedTargets(s)
        /\ Cardinality(Newest(PlacementsIn(r, s))) >= 2
        /\ \E p \in Newest(PlacementsIn(r, s)) : Reduced(p)

(***************************************************************************)
(* C19                                                                     *)
(***************************************************************************)
\* C19: the task list one Check returns never holds two tasks with the same
\* action, replica, segment and node: a segment of both targets gets at most
\* one Load task per replica, and a placement found by the target diff and
\* by the duplicate diff gets at most one Reduce task.
C19_NoDuplicates ==
    \A t1, t2 \in result.tasks :
        /\ t1.action = t2.action /\ t1.replica = t2.replica
        /\ t1.segment = t2.segment /\ t1.node = t2.node
        => t1 = t2

(***************************************************************************)
(* C17                                                                     *)
(***************************************************************************)
\* the replicas and the non-L0 sealed segments of their collections
Duplicable ==
    {rs \in Replicas \X SealedIDs :
        SegLevel(rs[2]) # "L0" /\ SegColl(rs[2]) = ReplicaColl(rs[1])}

\* one placement of the segment is left in the replica and the last pass
\* has no task for it
Converged(r, s) ==
    /\ Cardinality(PlacementsIn(r, s)) = 1
    /\ \A t \in result.tasks : ~(t.segment = s /\ t.replica = r)

\* a step leaves a placement of the highest Version of the segment in place
KeepsNewest(r, s) ==
    PlacementsIn(r, s) # {} => \E p \in Newest(PlacementsIn(r, s)) : p \in dist'

Releasable(r, s) ==
    /\ InSealedTargets(s)
    /\ shardLeader[r][SegChannel(s)] # NoNode
    /\ LeaderViewOf(r, s) # {}
    /\ \A p \in PlacementsIn(r, s) :
           ServedByLeader(r, s, p.node) => Newest(PlacementsIn(r, s)) = {p}

C20_CleanupUnderWriters ==
    \A t \in Cleanups : SegColl(t.segment) \notin collections

====
